---- MODULE Spec2Model ----
(***************************************************************************)
(* FedExServer (federatedscope/autotune/fedex/server.py): the exponentiated *)
(* gradient policy over the arms of the search space, and the round        *)
(* handling of the server that samples from it and updates it.             *)
(*                                                                         *)
(* Numbers.  The program computes in float64.  Here a real x is held as    *)
(* the integer x * Scale (fixed point), and exp, log and sqrt are computed *)
(* by integer series on that representation, so a probability vector is    *)
(* normalised only if the update really normalises it.  Quotients round    *)
(* down.                                                                   *)
(*                                                                         *)
(* Aspects.  __init__ builds self._cfsp as a one-element list (the         *)
(* flattened search space; the other branch is a TODO that leaves it       *)
(* unset), so every per-aspect list of the program has length one and the  *)
(* model holds its single element: z is self._z[0], theta self._theta[0],  *)
(* store self._store[0], and an arm is cfg_idx[0].                         *)
(***************************************************************************)
EXTENDS Integers, Sequences, FiniteSets, TLC

-----------------------------------------------------------------------------
(* Bounds of the model *)

\* clients of the federation
NumClients == 2
\* largest total_round_num
MaxRounds == 2
\* replies the transport may repeat
MaxDup == 1
\* policy updates followed when the rounds are taken batch by batch
MaxUpdates == 2

-----------------------------------------------------------------------------
(* Fixed-point arithmetic standing for float64 *)

Scale == 10 * 1000

Ln2 == (6931 * Scale) \div 10000

Abs(x) == IF x < 0 THEN -x ELSE x

\* a * b for two fixed-point numbers (split so that no product overflows)
Mul(a, b) == a * (b \div Scale) + (a * (b % Scale)) \div Scale

\* a / b for two fixed-point numbers, b # 0
Div(a, b) == IF b < 0 THEN ((-a) * Scale) \div (-b) ELSE (a * Scale) \div b

RECURSIVE Pow2(_)
Pow2(n) == IF n = 0 THEN 1 ELSE 2 * Pow2(n - 1)

\* log(m) for 1 <= m < 2, by the series of 2 * artanh((m-1)/(m+1))
LnM(m) ==
    LET y  == ((m - Scale) * Scale) \div (m + Scale)
        y2 == (y * y) \div Scale
        t3 == (y * y2) \div Scale
        t5 == (t3 * y2) \div Scale
        t7 == (t5 * y2) \div Scale
    IN  2 * y + (2 * t3) \div 3 + (2 * t5) \div 5 + (2 * t7) \div 7

\* np.log(x) for x > 0
RECURSIVE Ln(_)
Ln(x) == IF x < Scale THEN Ln(2 * x) - Ln2
         ELSE IF x >= 2 * Scale THEN Ln(x \div 2) + Ln2
         ELSE LnM(x)

\* exp(-r) for 0 <= r < ln 2, by its Taylor series
ExpFrac(r) ==
    LET t2 == (r * r) \div (2 * Scale)
        t3 == (t2 * r) \div (3 * Scale)
        t4 == (t3 * r) \div (4 * Scale)
        t5 == (t4 * r) \div (5 * Scale)
        t6 == (t5 * r) \div (6 * Scale)
    IN  Scale - r + t2 - t3 + t4 - t5 + t6

\* exp(x) rounds to 0 once x is below -ln(2 * Scale) (underflow)
Underflow == Ln(Scale * Scale) + Ln2

\* np.exp(x) for x <= 0
Exp(x) ==
    LET n == (-x) \div Ln2
        r == (-x) % Ln2
    IN  IF -x > Underflow THEN 0
        ELSE (ExpFrac(r) + Pow2(n) \div 2) \div Pow2(n)

RECURSIVE ISqrtFrom(_, _)
ISqrtFrom(n, r) ==
    IF r * r <= n THEN r ELSE ISqrtFrom(n, (r + n \div r) \div 2)

\* np.sqrt(x) for x >= 0
Sqrt(x) ==
    LET n == x * Scale
    IN  IF n < 2 THEN n ELSE ISqrtFrom(n, (x + Scale) \div 2 + 1)

RECURSIVE SumSeq(_)
SumSeq(s) == IF s = <<>> THEN 0 ELSE Head(s) + SumSeq(Tail(s))

RECURSIVE MaxSeq(_)
MaxSeq(s) ==
    IF Len(s) = 1 THEN s[1]
    ELSE LET m == MaxSeq(Tail(s)) IN IF s[1] >= m THEN s[1] ELSE m

\* np.inner(a, b)
Inner(a, b) == SumSeq([i \in 1..Len(a) |-> Mul(a[i], b[i])])

\* scipy.special.logsumexp(z)
logsumexp(zz) ==
    LET m == MaxSeq(zz)
    IN  m + Ln(SumSeq([i \in 1..Len(zz) |-> Exp(zz[i] - m)]))

\* factor ** k, with 0 ** 0 = 1 as in numpy
RECURSIVE Power(_, _)
Power(f, k) == IF k = 0 THEN Scale ELSE Mul(f, Power(f, k - 1))

-----------------------------------------------------------------------------
(* The policy: __init__, entropy, mle, sample, update_policy *)

Schedules == {"adaptive", "aggressive", "auto", "constant", "scale"}

\* discounted_mean(trace, factor)
discounted_mean(tr, factor) ==
    LET n == Len(tr)
        weight == [j \in 1..n |-> Power(factor, n - j)]
    IN  Div(Inner(tr, weight), SumSeq(weight))

\* self._eta0[0] for an aspect of the given size (eta0 == 'auto')
eta0(size) == Sqrt(2 * Ln(size * Scale))

\* self._z[0] as __init__ sets it
InitZ(size) == [k \in 1..size |-> -Ln(size * Scale)]

\* np.exp(z), elementwise
ExpAll(zz) == [k \in 1..Len(zz) |-> Exp(zz[k])]

\* FedExServer.entropy: over the entries of theta that are > 0
entropy(th) ==
    -SumSeq([k \in 1..Len(th) |->
                IF th[k] > 0 THEN Mul(th[k], Ln(th[k])) ELSE 0])

\* FedExServer.mle
mle(th) == MaxSeq(th)

\* theta.argmax(): the first index of the maximum (arms count from 0)
argmax(th) ==
    CHOOSE a \in 0..(Len(th) - 1) :
        /\ th[a + 1] = MaxSeq(th)
        /\ \A b \in 0..(a - 1) : th[b + 1] # MaxSeq(th)

\* A slip in lines 99-101: the choice ignores the probabilities
sample_any_arm(stop, th) ==
    IF stop THEN {<<argmax(th)>>}
    ELSE {<<a>> : a \in 0..(Len(th) - 1)}

\* FedExServer.sample: the arm lists cfg_idx it can return.
\* np.random.choice(len(theta), p=theta) returns an index of non-zero
\* probability.
sample(stop, th) ==
    IF stop THEN {<<argmax(th)>>}
    ELSE {<<a>> : a \in {b \in 0..(Len(th) - 1) : th[b + 1] > 0}}

\* The gradient of update_policy (lines 192-197); feedbacks[j] is the tuple
\* (sample_size, arms, loss), weight[j] its normalised weight, s[j] its signal.
Grad(th, feedbacks, weight, s, baseline) ==
    [k \in 1..Len(th) |->
        SumSeq([j \in 1..Len(feedbacks) |->
                  IF feedbacks[j][2][1] = k - 1 /\ th[k] # 0
                  THEN Div(Mul(weight[j], s[j] - baseline), th[k])
                  ELSE 0])]

\* A played arm of probability zero: the division of line 197 gives inf or nan
DividesByZero(th, feedbacks) ==
    \E j \in 1..Len(feedbacks) : th[feedbacks[j][2][1] + 1] = 0

AllZero(g) == \A k \in 1..Len(g) : g[k] = 0

\* A slip in lines 198-213: whatever the name, the step of 'constant' is taken
Step_fallback(sched, st, g) ==
    [raised |-> "none", store |-> st, eta |-> Div(eta0(Len(g)), Scale)]

\* The step-size denominator of the schedule (lines 198-213), as
\* [raised, store, eta]: eta is self._eta0[i] / denom. `norm` is not
\* imported by the module, so evaluating it raises NameError.
Step(sched, st, g) ==
    LET size == Len(g)
        e0 == eta0(size)
    IN  CASE sched = "adaptive" ->
                [raised |-> "NameError", store |-> st, eta |-> 0]
          [] sched = "aggressive" ->
                IF AllZero(g)
                THEN [raised |-> "none", store |-> st, eta |-> Div(e0, Scale)]
                ELSE [raised |-> "NameError", store |-> st, eta |-> 0]
          [] sched = "auto" ->
                [raised |-> "none", store |-> st + Scale,
                 eta |-> Div(e0, Sqrt(st + Scale))]
          [] sched = "constant" ->
                [raised |-> "none", store |-> st, eta |-> Div(e0, Scale)]
          [] sched = "scale" ->
                IF size > 1
                THEN [raised |-> "none", store |-> st,
                      eta |-> Div(e0, Div(Scale, Sqrt(2 * Ln(size * Scale))))]
                ELSE [raised |-> "none", store |-> st, eta |-> 0]
          [] OTHER ->
                [raised |-> "NotImplementedError", store |-> st, eta |-> 0]

\* z -= eta * grad; z -= logsumexp(z)   (lines 215-216)
Normalise(zz, eta, g) ==
    LET stepped == [k \in 1..Len(zz) |-> zz[k] - Mul(eta, g[k])]
        lse == logsumexp(stepped)
    IN  [k \in 1..Len(zz) |-> stepped[k] - lse]

\* A slip in line 186: the update does not look at the flag
Frozen_never(p) == FALSE

\* line 186: the policy is frozen
Frozen(p) == p.stop

\* A slip in line 221: the comparison is turned round
CutoffReached_above(ent, cutoff) == ent > cutoff

\* line 221: the new entropy is below the cutoff
CutoffReached(ent, cutoff) == ent < cutoff

\* A slip in lines 178-180: the subtraction is done on the stored series
\* instead of on the copy that trace() returns
StoredAfterBaseline_in_place(tr, past) == [tr EXCEPT !.refine = past]

\* The stored traces after the baseline computation (lines 85-93, 177-181):
\* trace() returns a new array, so `trace -= self.trace('global')` leaves the
\* stored series as they are
StoredAfterBaseline(tr, past) == tr

\* FedExServer.update_policy on the policy p = [z, theta, store, stop, trace,
\* finite], under the configuration c. The result carries `raised`: the
\* exception that ends the call, or "none".
update_policy(p, c, feedbacks) ==
    LET n == Len(feedbacks)
        total == SumSeq([j \in 1..n |-> feedbacks[j][1]])
        weight == [j \in 1..n |-> (feedbacks[j][1] * Scale) \div total]
        before == [j \in 1..n |-> feedbacks[j][3]]
        after == [j \in 1..n |-> feedbacks[j][3]]
        past == IF c.diff
                THEN [j \in 1..Len(p.trace.refine) |->
                         p.trace.refine[j] - p.trace.global[j]]
                ELSE p.trace.refine
        baseline == IF p.trace.refine # <<>>
                    THEN discounted_mean(past, c.gamma) ELSE 0
        tr1 == [StoredAfterBaseline(p.trace, past) EXCEPT
                  !.global = Append(@, Inner(before, weight)),
                  !.refine = Append(@, Inner(after, weight))]
        s == [j \in 1..n |-> IF c.diff THEN after[j] - before[j] ELSE after[j]]
        grad == Grad(p.theta, feedbacks, weight, s, baseline)
        step == Step(c.sched, p.store, grad)
        z1 == Normalise(p.z, step.eta, grad)
        th1 == ExpAll(z1)
        ent == entropy(th1)
    IN  IF Frozen(p)
        THEN [p EXCEPT !.trace = [tr1 EXCEPT !.entropy = Append(@, 0),
                                             !.mle = Append(@, Scale)],
                       !.raised = "none"]
        ELSE IF step.raised # "none"
        THEN [p EXCEPT !.trace = tr1, !.raised = step.raised]
        ELSE IF DividesByZero(p.theta, feedbacks)
        \* grad holds inf or nan and so do z and theta after the step; the
        \* values are not represented, `finite` records that they are such
        THEN [p EXCEPT !.trace = [tr1 EXCEPT !.entropy = Append(@, 0),
                                             !.mle = Append(@, 0)],
                       !.store = step.store,
                       !.finite = FALSE,
                       !.raised = "none"]
        ELSE [z |-> z1,
              theta |-> th1,
              store |-> step.store,
              stop |-> CutoffReached(ent, c.cutoff),
              trace |-> [tr1 EXCEPT !.entropy = Append(@, ent),
                                    !.mle = Append(@, mle(th1))],
              finite |-> TRUE,
              raised |-> "none"]

-----------------------------------------------------------------------------
(* The server: its state, the messages, the handlers *)

VARIABLES
    cfg,               \* self._cfg and the constructor's arguments
    status,            \* "created", "running", or "crashed" (a handler raised)
    state,             \* self.state: the round counter
    msg_buffer,        \* self.msg_buffer: 'train' and 'eval', round -> sender -> content
    z,                 \* self._z[0]
    theta,             \* self._theta[0]
    store,             \* self._store[0]
    stop_exploration,  \* self._stop_exploration
    trace,             \* self._trace
    finite,            \* FALSE once z and theta hold inf or nan
    inbox,             \* per client, the requests sent to it and not yet handled
    delivered,         \* the replies the server has received (the transport may repeat them)
    dups,              \* how many replies the transport has repeated: 'train', 'eval'
    finish_sent,       \* how many times the 'finish' message was broadcast
    early_stops,       \* how many times the early stopper has answered True
    late_metrics,      \* the values of self.state at which results of another
                       \* round's evaluation have arrived
    agg_rounds,        \* the rounds whose aggregation was triggered, in order
    mab_feedbacks      \* the feedback list last handed to update_policy

vars == <<cfg, status, state, msg_buffer, z, theta, store, stop_exploration,
          trace, finite, inbox, delivered, dups, finish_sent, early_stops,
          late_metrics,
          agg_rounds, mab_feedbacks>>

Clients == 1..NumClients

\* sample sizes and losses a client may report
Sizes == {1, 2}

EvalFreqs == {1, 2}

\* what a client reports when the rounds are followed message by message
ReplySizes == {1}

ReplyLosses == {Scale}

\* A loss large enough for a single step to take a probability below the
\* smallest number exp returns above zero
BigLoss == Underflow \div 2

\* the losses of a batch: none, and a large one
Losses == {0, BigLoss}

Gammas == {0, Scale}

\* entropy cutoffs: never reached, reached as the policy sharpens, above ln(size)
Cutoffs == {0, Scale \div 2, 2 * Scale}

Policy == [z |-> z, theta |-> theta, store |-> store,
           stop |-> stop_exploration, trace |-> trace, finite |-> finite,
           raised |-> "none"]

\* The empty dict
Empty == <<>>

\* d[k] = v on a dict d
Put(d, k, v) == [x \in DOMAIN d \cup {k} |-> IF x = k THEN v ELSE d[x]]

\* len(d[k]) for a dict of dicts, 0 when k is no key
Count(d, k) == IF k \in DOMAIN d THEN Cardinality(DOMAIN d[k]) ELSE 0

\* The state __init__ leaves (lines 51-67), for an action space of `size` arms
InitPolicy(size) ==
    LET z0 == InitZ(size)
        th0 == ExpAll(z0)
    IN  [z |-> z0, theta |-> th0, store |-> 0, stop |-> FALSE,
         trace |-> [global |-> <<>>, refine |-> <<>>,
                    entropy |-> <<entropy(th0)>>, mle |-> <<mle(th0)>>],
         finite |-> TRUE, raised |-> "none"]

\* The receivers broadcast_model_para may choose (lines 111-117)
Receivers(client_num, sample_client_num) ==
    IF sample_client_num > 0
    THEN {R \in SUBSET (1..client_num) : Cardinality(R) = sample_client_num}
    ELSE {1..client_num}

\* A slip in lines 135-147: the arms are drawn from the policy as it was when
\* the handler was entered, not from the policy the update has just left
broadcast_model_para_stale(msg_type, sample_client_num, st, stop, th) ==
    UNION {[R -> {[msg_type |-> msg_type, state |-> st, arms |-> a] :
                     a \in sample(stop_exploration, theta)}] :
           R \in Receivers(cfg.client_num, sample_client_num)}

\* broadcast_model_para (lines 135-147): the possible outcomes, each a
\* function from the receivers to the message sent to each, with the arms
\* that sample() drew for it
broadcast_model_para(msg_type, sample_client_num, st, stop, th) ==
    UNION {[R -> {[msg_type |-> msg_type, state |-> st, arms |-> a] :
                     a \in sample(stop, th)}] :
           R \in Receivers(cfg.client_num, sample_client_num)}

\* comm_manager.send of every message of a broadcast
Send(inb, out) ==
    [c \in Clients |-> IF c \in DOMAIN out THEN Append(inb[c], out[c])
                       ELSE inb[c]]

\* A slip in lines 155-158: the reply is filed under the server's current
\* round instead of the round it was sent for
StoreFeedback_current_round(train, message) ==
    LET sender == message.sender
        t1 == IF state \notin DOMAIN train THEN Put(train, state, Empty)
              ELSE train
    IN  IF message.msg_type = "model_para"
        THEN Put(t1, state, Put(t1[state], sender, message.content))
        ELSE LET round == message.state
                 t2 == IF round \notin DOMAIN train
                       THEN Put(train, round, Empty) ELSE train
             IN  Put(t2, round, Put(t2[round], sender, message.content))

\* lines 155-158 of callback_funcs_model_para
StoreFeedback(train, message) ==
    LET round == message.state
        sender == message.sender
        t1 == IF round \notin DOMAIN train THEN Put(train, round, Empty)
              ELSE train
    IN  Put(t1, round, Put(t1[round], sender, message.content))

\* A slip in lines 234-239: one training reply is enough
minimal_number_one(c, check_eval_result) ==
    IF check_eval_result THEN c.client_num ELSE 1

\* lines 234-239 of check_and_move_on
minimal_number(c, check_eval_result) ==
    IF check_eval_result THEN c.client_num ELSE c.sample_client_num

\* Another reading of Server.check_buffer: an evaluation is looked up under
\* the newest round that has results buffered, not under cur_round
check_buffer_latest(mb, cur_round, min_received_num, check_eval_result) ==
    IF check_eval_result
    THEN /\ DOMAIN mb.eval # {}
         /\ Count(mb.eval, CHOOSE r \in DOMAIN mb.eval :
                               \A q \in DOMAIN mb.eval : q <= r)
               >= min_received_num
    ELSE Count(mb.train, cur_round) >= min_received_num

\* Server.check_buffer: the round's buffer holds the required number of senders
check_buffer(mb, cur_round, min_received_num, check_eval_result) ==
    LET buffer == IF check_eval_result THEN mb.eval ELSE mb.train
    IN  Count(buffer, cur_round) >= min_received_num

\* The ids of a dict, in ascending order
RECURSIVE Sorted(_)
Sorted(S) ==
    IF S = {} THEN <<>>
    ELSE LET m == CHOOSE x \in S : \A y \in S : x <= y
         IN  <<m>> \o Sorted(S \ {m})

\* lines 244-267: the (sample_size, arms, loss) tuples of the round's buffer;
\* content is (sample_size, model_para, arms, loss)
BuildFeedbacks(train_msg_buffer) ==
    LET ids == Sorted(DOMAIN train_msg_buffer)
    IN  [j \in 1..Len(ids) |->
            <<train_msg_buffer[ids[j]][1],
              train_msg_buffer[ids[j]][3],
              train_msg_buffer[ids[j]][4]>>]

\* A slip in line 290: the budget is not looked at
EvalDue_any_round(st, c) == st % c.eval_freq = 0

\* line 290: an evaluation is started after the round
EvalDue(st, c) == st % c.eval_freq = 0 /\ st # c.total_round_num

\* line 297: a next round of training is started
MoveToNextRound(st, c) == st < c.total_round_num

\* A slip in line 303: the new round's buffer is cleared, not the consumed one
ClearRound_new_round(train, st) == Put(train, st, Empty)

\* line 303: self.msg_buffer['train'][self.state - 1].clear()
ClearRound(train, st) == Put(train, st - 1, Empty)

\* A slip in lines 369-370: the round counter is not moved past the budget
\* after the final evaluation
check_and_save_stay(st, should_stop, c) ==
    [state |-> IF should_stop THEN c.total_round_num + 1 ELSE st,
     finish |-> should_stop \/ st = c.total_round_num]

\* A slip in line 345: every evaluation that is collected ends the course
check_and_save_any_evaluation(st, should_stop, c) ==
    LET s1 == IF should_stop THEN c.total_round_num + 1 ELSE st
    IN  [state |-> IF s1 = c.total_round_num THEN s1 + 1 ELSE s1,
         finish |-> TRUE]

\* A slip in lines 342-345: the early stop does not move the round counter
check_and_save_no_jump(st, should_stop, c) ==
    [state |-> IF st = c.total_round_num THEN st + 1 ELSE st,
     finish |-> should_stop \/ st = c.total_round_num]

\* check_and_save (lines 342-370): the round counter it leaves, and whether
\* it broadcasts 'finish'
check_and_save(st, should_stop, c) ==
    LET s1 == IF should_stop THEN c.total_round_num + 1 ELSE st
        fin == should_stop \/ s1 = c.total_round_num
    IN  [state |-> IF s1 = c.total_round_num THEN s1 + 1 ELSE s1,
         finish |-> fin]

\* Server.eval, with the evaluation done by the clients: the 'evaluate'
\* request goes to every client through broadcast_model_para
eval(st, stop, th) == broadcast_model_para("evaluate", -1, st, stop, th)

\* The training branch of check_and_move_on (lines 243-313), on the buffer mb
\* (the arrival stored) and the clients' inboxes inb
TrainBranch(mb, inb) ==
    \E fb \in {BuildFeedbacks(mb.train[state])} :
    \E p \in {update_policy(Policy, cfg, fb)} :
    LET st == state + 1
    IN  /\ mab_feedbacks' = fb
        /\ agg_rounds' = Append(agg_rounds, state)
        /\ trace' = p.trace
        /\ finish_sent' = finish_sent
        /\ IF p.raised # "none"
           THEN /\ status' = "crashed"
                /\ msg_buffer' = mb
                /\ inbox' = inb
                /\ UNCHANGED <<state, z, theta, store, stop_exploration, finite>>
           ELSE /\ status' = status
                /\ z' = p.z
                /\ theta' = p.theta
                /\ store' = p.store
                /\ stop_exploration' = p.stop
                /\ finite' = p.finite
                /\ state' = st
                /\ \E periodic \in (IF EvalDue(st, cfg)
                                    THEN eval(st, p.stop, p.theta) ELSE {Empty}) :
                     IF MoveToNextRound(st, cfg)
                     THEN /\ msg_buffer' = [mb EXCEPT !.train = ClearRound(@, st)]
                          /\ \E next \in broadcast_model_para(
                                   "model_para", cfg.sample_client_num,
                                   st, p.stop, p.theta) :
                               inbox' = Send(Send(inb, periodic), next)
                     ELSE /\ msg_buffer' = mb
                          /\ \E final \in eval(st, p.stop, p.theta) :
                               inbox' = Send(Send(inb, periodic), final)

\* The evaluation branch of check_and_move_on (lines 315-320) and
\* check_and_save; should_stop is what the early stopper answers
EvalBranch(mb, inb, should_stop) ==
    LET r == check_and_save(state, should_stop, cfg)
    IN  /\ state' = r.state
        /\ finish_sent' = finish_sent + (IF r.finish THEN 1 ELSE 0)
        /\ msg_buffer' = mb
        /\ inbox' = inb
        /\ UNCHANGED <<status, z, theta, store, stop_exploration, trace, finite,
                       agg_rounds, mab_feedbacks>>

\* FedExServer.check_and_move_on
check_and_move_on(mb, inb, check_eval_result, should_stop) ==
    IF check_buffer(mb, state, minimal_number(cfg, check_eval_result),
                    check_eval_result)
    THEN IF ~check_eval_result
         THEN TrainBranch(mb, inb)
         ELSE EvalBranch(mb, inb, should_stop)
    ELSE /\ msg_buffer' = mb
         /\ inbox' = inb
         /\ UNCHANGED <<status, state, z, theta, store, stop_exploration,
                        trace, finite, finish_sent, agg_rounds, mab_feedbacks>>

\* FedExServer.callback_funcs_model_para
callback_funcs_model_para(message, inb) ==
    /\ early_stops' = early_stops
    /\ late_metrics' = late_metrics
    /\ check_and_move_on([msg_buffer EXCEPT !.train = StoreFeedback(@, message)],
                         inb, FALSE, FALSE)

\* Server.callback_funcs_for_metrics: the evaluation results are buffered by
\* round and sender, then check_and_move_on(check_eval_result=True)
callback_funcs_for_metrics(message, inb) ==
    LET mb == [msg_buffer EXCEPT !.eval = StoreFeedback(@, message)]
        checks == check_buffer(mb, state, minimal_number(cfg, TRUE), TRUE)
    IN  \E should_stop \in (IF checks THEN BOOLEAN ELSE {FALSE}) :
          /\ early_stops' = early_stops + (IF should_stop THEN 1 ELSE 0)
          /\ late_metrics' = (IF message.state # state
                               THEN late_metrics \cup {state}
                               ELSE late_metrics)
          /\ check_and_move_on(mb, inb, TRUE, should_stop)

-----------------------------------------------------------------------------
(* The steps *)

\* The configurations the server is constructed with when the rounds are
\* followed message by message
Configs ==
    [client_num : {NumClients},
     sample_client_num : 1..NumClients,
     total_round_num : 1..MaxRounds,
     eval_freq : EvalFreqs,
     sched : {"constant", "adaptive"},
     diff : {FALSE},
     gamma : {Scale},
     cutoff : {2 * Scale},
     num_arms : {2}]

InitWith(c) ==
    LET p == InitPolicy(c.num_arms)
    IN  /\ cfg = c
        /\ state = 0
        /\ msg_buffer = [train |-> Empty, eval |-> Empty]
        /\ z = p.z
        /\ theta = p.theta
        /\ store = p.store
        /\ stop_exploration = p.stop
        /\ trace = p.trace
        /\ finite = p.finite
        /\ inbox = [c2 \in Clients |-> <<>>]
        /\ delivered = {}
        /\ dups = [train |-> 0, eval |-> 0]
        /\ finish_sent = 0
        /\ early_stops = 0
        /\ late_metrics = {}
        /\ agg_rounds = <<>>
        /\ mab_feedbacks = <<>>

Init == \E c \in Configs : InitWith(c) /\ status = "created"

\* Server.trigger_for_start: once the clients have joined, the first round
\* of training is broadcast
trigger_for_start ==
    /\ status = "created"
    /\ status' = "running"
    /\ \E out \in broadcast_model_para("model_para", cfg.sample_client_num,
                                       state, stop_exploration, theta) :
         inbox' = Send(inbox, out)
    /\ UNCHANGED <<cfg, state, msg_buffer, z, theta, store, stop_exploration,
                   trace, finite, delivered, dups, finish_sent, early_stops,
                   late_metrics,
                   agg_rounds, mab_feedbacks>>

\* Client c trains on the request at the head of its inbox and its reply
\* (sample_size, model_para, arms, loss) reaches the server
ClientTrain(c) ==
    /\ status = "running"
    /\ inbox[c] # <<>>
    /\ Head(inbox[c]).msg_type = "model_para"
    /\ \E size \in ReplySizes, loss \in ReplyLosses :
         LET req == Head(inbox[c])
             message == [msg_type |-> "model_para", state |-> req.state,
                         sender |-> c,
                         content |-> <<size, "model_para", req.arms, loss>>]
         IN  /\ delivered' = delivered \cup {message}
             /\ callback_funcs_model_para(
                    message, [inbox EXCEPT ![c] = Tail(@)])
    /\ UNCHANGED <<cfg, dups>>

\* Client c evaluates on the request at the head of its inbox and its
\* metrics reach the server
ClientEval(c) ==
    /\ status = "running"
    /\ inbox[c] # <<>>
    /\ Head(inbox[c]).msg_type = "evaluate"
    /\ LET req == Head(inbox[c])
           message == [msg_type |-> "metrics", state |-> req.state,
                       sender |-> c, content |-> <<"metrics">>]
       IN  /\ delivered' = delivered \cup {message}
           /\ callback_funcs_for_metrics(
                  message, [inbox EXCEPT ![c] = Tail(@)])
    /\ UNCHANGED <<cfg, dups>>

\* The transport delivers a training reply once more
RedeliverTrain(message) ==
    /\ status = "running"
    /\ message.msg_type = "model_para"
    /\ dups.train + dups.eval < MaxDup
    /\ dups' = [dups EXCEPT !.train = @ + 1]
    /\ callback_funcs_model_para(message, inbox)
    /\ UNCHANGED <<cfg, delivered>>

\* The transport delivers an evaluation reply once more
RedeliverEval(message) ==
    /\ status = "running"
    /\ message.msg_type = "metrics"
    /\ dups.train + dups.eval < MaxDup
    /\ dups' = [dups EXCEPT !.eval = @ + 1]
    /\ callback_funcs_for_metrics(message, inbox)
    /\ UNCHANGED <<cfg, delivered>>

Next ==
    \/ trigger_for_start
    \/ \E c \in Clients : ClientTrain(c)
    \/ \E c \in Clients : ClientEval(c)
    \/ \E message \in delivered : RedeliverTrain(message)
    \/ \E message \in delivered : RedeliverEval(message)

Spec == Init /\ [][Next]_vars

\* ClientTrain(c) is enabled: the handler it ends in is total
TrainPending(c) ==
    /\ status = "running"
    /\ inbox[c] # <<>>
    /\ Head(inbox[c]).msg_type = "model_para"

\* ClientEval(c) is enabled
EvalPending(c) ==
    /\ status = "running"
    /\ inbox[c] # <<>>
    /\ Head(inbox[c]).msg_type = "evaluate"

\* The step ClientTrain(c), told by what it leaves: the request at the head of
\* c's inbox is answered and the answer, a new one, has reached the server
TrainAnswered(c) ==
    /\ TrainPending(c)
    /\ \E size \in ReplySizes, loss \in ReplyLosses :
         LET req == Head(inbox[c])
         IN  delivered' = delivered \cup
                 {[msg_type |-> "model_para", state |-> req.state,
                   sender |-> c,
                   content |-> <<size, "model_para", req.arms, loss>>]}
    /\ UNCHANGED <<cfg, dups>>

\* The step ClientEval(c), told in the same way
EvalAnswered(c) ==
    /\ EvalPending(c)
    /\ delivered' = delivered \cup
            {[msg_type |-> "metrics", state |-> Head(inbox[c]).state,
              sender |-> c, content |-> <<"metrics">>]}
    /\ UNCHANGED <<cfg, dups>>

\* The start is triggered, every client answers every request it is sent and
\* every answer is delivered: weak fairness of trigger_for_start, of
\* ClientTrain(c) and of ClientEval(c), the last two written out on their
\* enabling conditions
Responsive ==
    /\ WF_vars(trigger_for_start)
    /\ \A c \in Clients :
          /\ []<>(~TrainPending(c)) \/ []<><<TrainAnswered(c)>>_vars
          /\ []<>(~EvalPending(c)) \/ []<><<EvalAnswered(c)>>_vars

SpecFair == Spec /\ Responsive

-----------------------------------------------------------------------------
(* The policy alone: the rounds taken batch by batch. A round is one call of
   broadcast_model_para to all the clients (which samples an arm for each)
   followed by update_policy on the feedback the clients return for it. *)

PolicyConfigs ==
    [client_num : {1, 2},
     sample_client_num : {-1},
     total_round_num : {MaxUpdates},
     eval_freq : {MaxUpdates + 1},
     sched : Schedules \cup {"other"},
     diff : BOOLEAN,
     gamma : Gammas,
     cutoff : Cutoffs,
     num_arms : {1, 2}]

\* The sample sizes of a batch. The update weighs the tuples by size / sum,
\* and the arms and losses of the clients range over all combinations, so
\* the first client's size is held at 1.
BatchSizes(n) == {f \in [1..n -> Sizes] : f[1] = 1}

InitPolicyOnly == \E c \in PolicyConfigs : InitWith(c) /\ status = "running"

\* broadcast_model_para for the round: an arm is sampled for every client
SampleRound ==
    /\ status = "running"
    /\ state < cfg.total_round_num
    /\ \A c \in Clients : inbox[c] = <<>>
    /\ \E out \in broadcast_model_para("model_para", cfg.sample_client_num,
                                       state, stop_exploration, theta) :
         inbox' = Send(inbox, out)
    /\ UNCHANGED <<cfg, status, state, msg_buffer, z, theta, store,
                   stop_exploration, trace, finite, delivered, dups,
                   finish_sent, early_stops, late_metrics, agg_rounds,
                   mab_feedbacks>>

\* The round's feedback is complete: lines 244-287 of check_and_move_on on
\* the replies (sample_size, model_para, arms, loss) of the clients
UpdateRound ==
    /\ status = "running"
    /\ \E c \in Clients : inbox[c] # <<>>
    /\ \E sizes \in BatchSizes(cfg.client_num),
          losses \in [1..cfg.client_num -> Losses] :
         LET train_msg_buffer ==
                 [c \in 1..cfg.client_num |->
                     <<sizes[c], "model_para", Head(inbox[c]).arms, losses[c]>>]
         IN
         \E fb \in {BuildFeedbacks(train_msg_buffer)} :
         \E p \in {update_policy(Policy, cfg, fb)} :
             /\ mab_feedbacks' = fb
             /\ agg_rounds' = Append(agg_rounds, state)
             /\ trace' = p.trace
             /\ inbox' = [c \in Clients |-> <<>>]
             /\ IF p.raised # "none"
                THEN /\ status' = "crashed"
                     /\ UNCHANGED <<state, z, theta, store, stop_exploration,
                                    finite>>
                ELSE /\ status' = status
                     /\ state' = state + 1
                     /\ z' = p.z
                     /\ theta' = p.theta
                     /\ store' = p.store
                     /\ stop_exploration' = p.stop
                     /\ finite' = p.finite
    /\ UNCHANGED <<cfg, msg_buffer, delivered, dups, finish_sent, early_stops,
                 late_metrics>>

NextPolicy == SampleRound \/ UpdateRound

SpecPolicy == InitPolicyOnly /\ [][NextPolicy]_vars

-----------------------------------------------------------------------------
(* update_policy called on any feedback: the tuples may name any arm of the
   action space, played or not, as the method takes whatever list it is
   handed *)

CallLosses == {0, Scale, BigLoss}

CallConfigs ==
    [client_num : {NumClients},
     sample_client_num : {-1},
     total_round_num : {MaxUpdates},
     eval_freq : {MaxUpdates + 1},
     sched : Schedules,
     diff : {FALSE},
     gamma : {Scale},
     cutoff : {0, 2 * Scale},
     num_arms : {2, 3}]

\* The feedback lists handed to the method: one tuple naming any arm, or one
\* tuple for each arm in turn; the sample sizes are equal
Batches(size) ==
    {<<<<1, <<a>>, loss>>>> : a \in 0..(size - 1), loss \in CallLosses}
        \cup {[j \in 1..size |-> <<1, <<j - 1>>, losses[j]>>] :
                 losses \in [1..size -> CallLosses]}

InitCall == \E c \in CallConfigs : InitWith(c) /\ status = "running"

\* self.update_policy(feedbacks) on a policy whose numbers are finite
UpdateCall ==
    /\ status = "running"
    /\ finite
    /\ state < cfg.total_round_num
    /\ \E fb \in Batches(cfg.num_arms) :
       \E p \in {update_policy(Policy, cfg, fb)} :
         /\ mab_feedbacks' = fb
         /\ agg_rounds' = Append(agg_rounds, state)
         /\ trace' = p.trace
         /\ IF p.raised # "none"
            THEN /\ status' = "crashed"
                 /\ UNCHANGED <<state, z, theta, store, stop_exploration,
                                finite>>
            ELSE /\ status' = status
                 /\ state' = state + 1
                 /\ z' = p.z
                 /\ theta' = p.theta
                 /\ store' = p.store
                 /\ stop_exploration' = p.stop
                 /\ finite' = p.finite
    /\ UNCHANGED <<cfg, msg_buffer, inbox, delivered, dups, finish_sent,
                   early_stops, late_metrics>>

NextCall == UpdateCall

SpecCall == InitCall /\ [][NextCall]_vars

-----------------------------------------------------------------------------
(* Vocabulary of the properties *)

\* The required number of training replies
Quorum == cfg.sample_client_num

\* The rounds whose aggregation was triggered
Aggregated == {agg_rounds[i] : i \in 1..Len(agg_rounds)}

\* This step triggered the aggregation and the policy update
AggTriggered == agg_rounds' # agg_rounds

\* This step ran a policy update to its end
UpdateDone == Len(trace'.entropy) = Len(trace.entropy) + 1

\* This step changed the policy state
PolicyChanged ==
    z' # z \/ theta' # theta \/ store' # store
        \/ stop_exploration' # stop_exploration

\* The requests of a type and round in a client's inbox
CountReq(inb, c, msg_type, st) ==
    Cardinality({i \in 1..Len(inb[c]) :
                    inb[c][i].msg_type = msg_type /\ inb[c][i].state = st})

\* The index of the largest probability, the lowest one on ties
IsArgmax(a, th) ==
    /\ \A k \in 1..Len(th) : th[a + 1] >= th[k]
    /\ \A k \in 1..a : th[k] < th[a + 1]

\* Every request of the current round carries arms the current policy can
\* have drawn: the argmax once exploration has stopped, an arm of positive
\* probability before
CurrentRequestsFollowPolicy ==
    \A c \in Clients : \A i \in 1..Len(inbox[c]) :
        inbox[c][i].state = state =>
            IF stop_exploration
            THEN IsArgmax(inbox[c][i].arms[1], theta)
            ELSE theta[inbox[c][i].arms[1] + 1] > 0

NoDuplicates(sq) == \A i, j \in 1..Len(sq) : sq[i] = sq[j] => i = j

\* The requests of a type and round that this step has added to c's inbox
NewReq(c, msg_type, st) ==
    CountReq(inbox', c, msg_type, st) - CountReq(inbox, c, msg_type, st)

Last(sq) == sq[Len(sq)]

-----------------------------------------------------------------------------
(* Quorum gating *)

\* C1, as stated: for every round r, the arrival that brings the number of
\* distinct senders buffered for r (a round not aggregated before) up to the
\* quorum triggers the aggregation and policy update of r.
C1_Original ==
    [][\A r \in 0..MaxRounds :
          (/\ r \notin Aggregated
           /\ Count(msg_buffer.train, r) < Quorum
           /\ Count(msg_buffer'.train, r) >= Quorum)
          => agg_rounds' = Append(agg_rounds, r)]_vars

\* C1, amended: the aggregation and policy update is triggered only for the
\* round the server is in, at most once for a round, at the arrival that
\* brings that round's distinct senders from quorum - 1 to the quorum, every
\* request of the round having been answered; while the server is in a round
\* its buffer holds fewer senders than the quorum; a round the server has
\* left without aggregating it (early stop) is never aggregated.
C1_QuorumGating ==
    /\ [](status # "crashed" => Count(msg_buffer.train, state) < Quorum)
    /\ [](NoDuplicates(agg_rounds))
    /\ [][AggTriggered =>
            /\ agg_rounds' = Append(agg_rounds, state)
            /\ state \notin Aggregated
            /\ Count(msg_buffer.train, state) = Quorum - 1
            /\ Len(mab_feedbacks') = Quorum
            /\ \A c \in Clients : CountReq(inbox', c, "model_para", state) = 0
       ]_vars
    /\ [][\A r \in 0..MaxRounds :
            (r # state /\ r \notin Aggregated) => r \notin Aggregated']_vars

\* A round was aggregated on a full quorum of all the clients, after a reply
\* had been delivered twice
C1_Witness ==
    /\ Quorum = NumClients
    /\ dups.train = 1
    /\ Len(agg_rounds) >= 2
    /\ Len(mab_feedbacks) = NumClients

-----------------------------------------------------------------------------
(* Sampling is ordered after the update *)

\* C2: the policy state changes only in the step that aggregates a round on
\* its quorum and runs update_policy to its end, once for each aggregated
\* round; the requests of a round are dispatched at the start or in the step
\* that completes the previous round's update, and carry arms drawn from the
\* policy that update has left.
C2_UpdateThenSample ==
    /\ [](CurrentRequestsFollowPolicy)
    /\ [](status # "crashed" => Len(trace.entropy) = Len(agg_rounds) + 1)
    /\ [][PolicyChanged =>
            /\ UpdateDone
            /\ AggTriggered
            /\ Len(mab_feedbacks') = Quorum
            /\ state' = state + 1]_vars
    /\ [][(AggTriggered /\ status' # "crashed") =>
            UpdateDone /\ state' = state + 1]_vars
    /\ [][\A c \in Clients :
            NewReq(c, "model_para", state') > 0 =>
                status = "created" \/ (UpdateDone /\ state' = state + 1)]_vars

\* The update of a round has completed and changed the probabilities, and a
\* request of the next round is waiting at a client
C2_Witness ==
    /\ Len(trace.entropy) >= 2
    /\ state >= 1
    /\ theta # ExpAll(InitZ(cfg.num_arms))
    /\ \E c \in Clients : CountReq(inbox, c, "model_para", state) > 0

-----------------------------------------------------------------------------
(* The transition after the update *)

\* C3, as stated: after the update exactly one transition is taken, so no
\* step starts both an evaluation and the next round's dispatch.
C3_Original ==
    [][UpdateDone =>
          ~ /\ \E c \in Clients : NewReq(c, "evaluate", state') > 0
            /\ \E c \in Clients : NewReq(c, "model_para", state') > 0]_vars

\* C3, amended: after the update the round counter is incremented by one;
\* every client is sent one evaluation request when the new counter is a
\* multiple of the evaluation frequency and below the budget, or has reached
\* the budget, and none otherwise; and when the new counter is below the
\* budget, whether or not an evaluation was started, the consumed round's
\* buffer is cleared and the next round is dispatched to a quorum of clients,
\* while at the budget the buffer is kept and nothing is dispatched.
C3_Transition ==
    [][UpdateDone =>
          LET st == state'
              total == cfg.total_round_num
              evals == IF (st % cfg.eval_freq = 0 /\ st < total) \/ st = total
                       THEN 1 ELSE 0
              sent == {c \in Clients : NewReq(c, "model_para", st) > 0}
          IN  /\ st = state + 1
              /\ st <= total
              /\ \A c \in Clients : NewReq(c, "evaluate", st) = evals
              /\ \A c \in sent : NewReq(c, "model_para", st) = 1
              /\ Cardinality(sent) = IF st < total THEN Quorum ELSE 0
              /\ st < total => Count(msg_buffer'.train, state) = 0
              /\ st = total => Count(msg_buffer'.train, state) = Quorum
    ]_vars

\* A client holds an evaluation request and a training request of the same
\* round, both started by one update
C3_Witness ==
    /\ state >= 1
    /\ Len(trace.entropy) = state + 1
    /\ \E c \in Clients :
          /\ CountReq(inbox, c, "evaluate", state) = 1
          /\ CountReq(inbox, c, "model_para", state) = 1

-----------------------------------------------------------------------------
(* The freeze *)

\* C4: once exploration has stopped, sample() returns one outcome, the index
\* of the largest probability (the lowest such index on ties), the requests
\* dispatched carry it, and every later update leaves logProb, prob and
\* gradAccum unchanged and the flag set, appending the placeholders 0 and 1
\* to the entropy and mle traces.
C4_MonotoneFreeze ==
    /\ [](stop_exploration =>
            /\ \E a \in 0..(Len(theta) - 1) :
                  IsArgmax(a, theta) /\ sample(stop_exploration, theta) = {<<a>>}
            /\ CurrentRequestsFollowPolicy)
    /\ [][stop_exploration =>
            /\ z' = z /\ theta' = theta /\ store' = store
            /\ stop_exploration'
            /\ AggTriggered =>
                  /\ UpdateDone
                  /\ Last(trace'.entropy) = 0
                  /\ Last(trace'.mle) = Scale]_vars

\* An update was run on a frozen policy over two arms with a feedback of
\* positive loss
C4_Witness ==
    /\ stop_exploration
    /\ cfg.num_arms = 2
    /\ Len(trace.entropy) = 3
    /\ trace.entropy[2] < cfg.cutoff
    /\ \E j \in 1..Len(mab_feedbacks) : mab_feedbacks[j][3] > 0

\* C5: the flag is false at construction, becomes true only in a step that
\* completes an update whose new entropy is strictly below the cutoff, and
\* never returns to false; with a cutoff above the initial entropy it is set
\* by the first completed update, so the second round is sampled with one
\* possible outcome.
C5_StopFlag ==
    /\ [](Len(trace.entropy) = 1 => ~stop_exploration)
    /\ [][stop_exploration => stop_exploration']_vars
    /\ [][(UpdateDone /\ ~stop_exploration) =>
            (stop_exploration' <=> Last(trace'.entropy) < cfg.cutoff)]_vars
    /\ [][(~stop_exploration /\ stop_exploration') => UpdateDone]_vars
    /\ []((cfg.cutoff > trace.entropy[1] /\ Len(trace.entropy) >= 2) =>
            /\ stop_exploration
            /\ Cardinality(sample(stop_exploration, theta)) = 1
            /\ \A c, d \in Clients :
                  (inbox[c] # <<>> /\ inbox[d] # <<>>) =>
                      Head(inbox[c]).arms = Head(inbox[d]).arms)

\* The first update has set the flag under a cutoff above the initial
\* entropy, and the second round has been sampled for two clients
C5_Witness ==
    /\ cfg.cutoff > trace.entropy[1]
    /\ cfg.num_arms = 2
    /\ cfg.client_num = 2
    /\ Len(trace.entropy) = 2
    /\ stop_exploration
    /\ state = 1
    /\ \A c \in Clients : inbox[c] # <<>>

-----------------------------------------------------------------------------
(* Normalisation *)

\* The rounding of the fixed-point exp and logsumexp
Tol == Scale \div 1000

\* The probabilities are exp(logProb), each a non-negative number, and sum
\* to 1
Normalised ==
    /\ finite
    /\ theta = ExpAll(z)
    /\ \A k \in 1..Len(theta) : theta[k] >= 0
    /\ Abs(SumSeq(ExpAll(z)) - Scale) <= Tol

\* C6, as stated: under each of the five schedules, a policy update on any
\* feedback batch completes and leaves probabilities that sum to 1, every
\* entry a non-negative number.
C6_Original ==
    [][(AggTriggered /\ cfg.sched \in Schedules) =>
          UpdateDone /\ Normalised']_vars

\* The same for the schedules that do not call norm
C6_WithoutNorm ==
    /\ [](Normalised)
    /\ [][(AggTriggered /\ cfg.sched \in {"auto", "constant", "scale"}) =>
            UpdateDone]_vars

-----------------------------------------------------------------------------
(* Late and repeated feedback *)

\* A training reply delivered once more; the rounds whose aggregation has
\* been triggered are the completed ones
LateArrival == dups'.train # dups.train

\* C7, as stated: a training reply that arrives again after its round's
\* aggregation and update have completed is dropped, the buffer of every
\* completed round being the same after the arrival as before it.
C7_LateDropped ==
    [][LateArrival =>
          \A r \in Aggregated :
              Count(msg_buffer'.train, r) = Count(msg_buffer.train, r)]_vars

-----------------------------------------------------------------------------
(* The buffer of a consumed round *)

-----------------------------------------------------------------------------
(* Early stop *)

\* C10: in the step in which the early stopper answers true, the round
\* counter is set to the budget plus one and the termination signal is
\* broadcast, whatever the round counter was and whether or not requests of a
\* training round are outstanding.
C10_EarlyStop ==
    [][early_stops' = early_stops + 1 =>
          /\ state' = cfg.total_round_num + 1
          /\ finish_sent' = finish_sent + 1]_vars

\* The early stopper has answered true below the budget while a training
\* request was outstanding
C10_Witness ==
    /\ early_stops = 1
    /\ finish_sent = 1
    /\ state = cfg.total_round_num + 1
    /\ Len(agg_rounds) < cfg.total_round_num
    /\ \E c \in Clients : \E i \in 1..Len(inbox[c]) :
          inbox[c][i].msg_type = "model_para"

-----------------------------------------------------------------------------
(* Finished *)

\* The termination signal has been broadcast
Finished == finish_sent >= 1

\* C11: once the termination signal has been broadcast the round counter is
\* above the budget, and no later step, the arrival that completes the quorum
\* of the round that was in progress included, dispatches a request,
\* aggregates a round, updates the policy or the traces, or moves the round
\* counter.
C11_FinishedIsTerminal ==
    /\ [](Finished => state > cfg.total_round_num)
    /\ [][Finished =>
            /\ UNCHANGED <<state, status, z, theta, store, stop_exploration,
                           trace, finite, agg_rounds, mab_feedbacks>>
            /\ \A c \in Clients :
                  \A t \in {"model_para", "evaluate"} :
                      \A r \in 0..(MaxRounds + 1) : NewReq(c, t, r) <= 0
       ]_vars

\* After an early stop the round that was in progress has received its
\* quorum and was not aggregated
C11_Witness ==
    /\ Finished
    /\ early_stops = 1
    /\ \E r \in 0..MaxRounds :
          /\ r \notin Aggregated
          /\ Count(msg_buffer.train, r) >= Quorum

-----------------------------------------------------------------------------
(* Termination *)

\* The rounds 0 .. n-1 in order
RoundsUpTo(n) == [i \in 1..n |-> i - 1]

\* Without an early stop, Finished is reached after the rounds of the budget,
\* each aggregated once and each with one completed policy update
FinishedAfterBudget ==
    (Finished /\ early_stops = 0) =>
        /\ agg_rounds = RoundsUpTo(cfg.total_round_num)
        /\ Len(trace.entropy) = cfg.total_round_num + 1
        /\ Len(trace.refine) = cfg.total_round_num

\* C12, as stated: when every request is answered and every answer is
\* delivered the coordinator eventually reaches Finished, and without an
\* early stop it does so after exactly total_round_num rounds, each with one
\* aggregation and one policy update.
C12_Original == <>Finished /\ []FinishedAfterBudget

\* The same, for the runs in which no policy update raises
C12_UnlessRaised == <>(Finished \/ status = "crashed") /\ []FinishedAfterBudget

\* The budget was reached without an early stop
C12_Witness ==
    /\ Finished
    /\ early_stops = 0
    /\ cfg.total_round_num = MaxRounds
    /\ cfg.sample_client_num = NumClients

\* The steps of ClientTrain and ClientEval are the ones the fairness names
AnsweredIsClientStep ==
    [][\A c \in Clients :
          /\ TrainAnswered(c) <=> ClientTrain(c)
          /\ EvalAnswered(c) <=> ClientEval(c)]_vars

-----------------------------------------------------------------------------
(* The traces *)

TraceKeys == {"global", "refine", "entropy", "mle"}

IsPrefix(a, b) == Len(a) <= Len(b) /\ SubSeq(b, 1, Len(a)) = a

\* This step completed a round: the update returned and the counter moved
RoundCompleted == AggTriggered /\ state' = state + 1

\* C13: every completed round, its update frozen or not, appends exactly one
\* entry to each of the series global, refine, entropy and mle, and no step
\* changes or removes an entry a series already holds, the baseline
\* computation on refine - global included.
C13_TracesAppendOnly ==
    /\ [][\A k \in TraceKeys : IsPrefix(trace[k], trace'[k])]_vars
    /\ [][RoundCompleted =>
            \A k \in TraceKeys : Len(trace'[k]) = Len(trace[k]) + 1]_vars
    /\ [][(\E k \in TraceKeys : trace'[k] # trace[k]) => AggTriggered]_vars
    /\ [](status # "crashed" =>
            /\ Len(trace.global) = state
            /\ Len(trace.refine) = state
            /\ Len(trace.entropy) = state + 1
            /\ Len(trace.mle) = state + 1)

\* Two rounds were completed with the difference baseline, the second one on
\* a frozen policy, and the first entry of refine is still the non-zero loss
C13_Witness ==
    /\ cfg.diff
    /\ stop_exploration
    /\ trace.entropy[2] < cfg.cutoff
    /\ Len(trace.refine) = 2
    /\ Len(trace.mle) = 3
    /\ trace.refine[1] > 0
    /\ trace.global[1] > 0

-----------------------------------------------------------------------------
(* What the traces receive *)

\* The mean of vals weighted by the sample sizes of the feedback tuples fb
WeightedMean(fb, vals) ==
    LET total == SumSeq([j \in 1..Len(fb) |-> fb[j][1]])
    IN  SumSeq([j \in 1..Len(fb) |->
                   Mul(vals[j], (fb[j][1] * Scale) \div total)])

\* The loss before and the loss after of each tuple, as update_policy reads
\* them: both from the one loss the tuple carries
LossBefore(fb) == [j \in 1..Len(fb) |-> fb[j][3]]

LossAfter(fb) == [j \in 1..Len(fb) |-> fb[j][3]]

\* C14, as stated: each update appends to global the weighted mean of the
\* losses before and to refine the weighted mean of the losses after, or of
\* (after - before) when the difference is configured.
C14_Original ==
    [][AggTriggered =>
          LET fb == mab_feedbacks'
              signal == [j \in 1..Len(fb) |->
                            IF cfg.diff
                            THEN LossAfter(fb)[j] - LossBefore(fb)[j]
                            ELSE LossAfter(fb)[j]]
          IN  /\ Last(trace'.global) = WeightedMean(fb, LossBefore(fb))
              /\ Last(trace'.refine) = WeightedMean(fb, signal)]_vars

\* What the update appends: the weighted mean of the one reported loss, to
\* global and to refine alike, whatever the configuration
C14_AsCoded ==
    [][AggTriggered =>
          /\ Last(trace'.global) = WeightedMean(mab_feedbacks', LossBefore(mab_feedbacks'))
          /\ Last(trace'.refine) = Last(trace'.global)]_vars

-----------------------------------------------------------------------------
(* An arm of probability zero in the feedback *)

\* The feedback handed to this step's update names an arm whose probability
\* is zero, and the policy is not frozen, so the gradient is computed
NamesZeroArm ==
    /\ AggTriggered
    /\ ~stop_exploration
    /\ \E j \in 1..Len(mab_feedbacks') :
          theta[mab_feedbacks'[j][2][1] + 1] = 0

\* C15, as stated: an update whose feedback names an arm of probability
\* exactly zero raises and leaves logProb as it was; it does not complete
\* with an infinite or undefined gradient applied.
C15_ZeroArmRaises ==
    [][NamesZeroArm =>
          /\ status' = "crashed"
          /\ z' = z
          /\ finite']_vars

-----------------------------------------------------------------------------
(* A schedule name that is not supported *)

\* C16: under a schedule name outside adaptive, aggressive, auto, constant
\* and scale every policy update raises: none completes, none sets the
\* freeze, and logProb, prob and gradAccum stay as the constructor left them.
C16_UnsupportedSchedule ==
    /\ [][(AggTriggered /\ cfg.sched \notin Schedules) =>
            /\ status' = "crashed"
            /\ ~UpdateDone
            /\ UNCHANGED <<z, theta, store, stop_exploration, state>>]_vars
    /\ [](cfg.sched \notin Schedules =>
            /\ z = InitZ(cfg.num_arms)
            /\ theta = ExpAll(InitZ(cfg.num_arms))
            /\ store = 0
            /\ ~stop_exploration
            /\ Len(trace.entropy) = 1)

\* An update was attempted on two arms under an unsupported name, with a
\* feedback of positive loss
C16_Witness ==
    /\ cfg.sched \notin Schedules
    /\ cfg.num_arms = 2
    /\ status = "crashed"
    /\ Len(agg_rounds) = 1
    /\ \E j \in 1..Len(mab_feedbacks) : mab_feedbacks[j][3] > 0

-----------------------------------------------------------------------------
(* The direction of an update *)

\* The arm a tuple names
ArmOf(tp) == tp[2][1] + 1

\* How many tuples of fb name the arm k
Plays(fb, k) == Cardinality({j \in 1..Len(fb) : ArmOf(fb[j]) = k})

\* The feedback of scenario A: three arms at the uniform start, each played
\* once with equal weight, arm 0 with a strictly lower loss than the others
ScenarioA(fb) ==
    /\ cfg.num_arms = 3
    /\ theta = ExpAll(InitZ(3))
    /\ Len(fb) = 3
    /\ \A j \in 1..3 : ArmOf(fb[j]) = j /\ fb[j][1] = fb[1][1]
    /\ fb[1][3] < fb[2][3]
    /\ fb[2][3] = fb[3][3]

\* After this step, of two arms of equal log-probability that were each
\* played once, with equal weights, the one with the strictly lower loss has
\* the strictly higher log-probability
LowerLossGains(fb) ==
    \A i, j \in 1..Len(fb) :
        (/\ Plays(fb, ArmOf(fb[i])) = 1
         /\ Plays(fb, ArmOf(fb[j])) = 1
         /\ fb[i][1] = fb[j][1]
         /\ z[ArmOf(fb[i])] = z[ArmOf(fb[j])]
         /\ fb[i][3] < fb[j][3])
        => z'[ArmOf(fb[i])] > z'[ArmOf(fb[j])]

\* C17, as stated: the update on the feedback of scenario A leaves
\* prob[0] > prob[1] = prob[2], and any update leaves the arm of lower loss
\* with the higher log-probability.
C17_Original ==
    [][AggTriggered =>
          /\ ScenarioA(mab_feedbacks') =>
                theta'[1] > theta'[2] /\ theta'[2] = theta'[3]
          /\ LowerLossGains(mab_feedbacks')]_vars

\* The same for the updates that complete on a policy that is not frozen
C17_WhenUpdated ==
    [][(AggTriggered /\ status' # "crashed" /\ ~stop_exploration /\ finite') =>
          /\ ScenarioA(mab_feedbacks') =>
                theta'[1] > theta'[2] /\ theta'[2] = theta'[3]
          /\ LowerLossGains(mab_feedbacks')]_vars

\* An update on a frozen policy changes no log-probability
C17_FrozenGains ==
    [][(AggTriggered /\ stop_exploration) =>
          LowerLossGains(mab_feedbacks')]_vars

-----------------------------------------------------------------------------
(* The arms a round was played with *)

\* An arm of probability zero in the distribution th
HasZeroArm(th) == \E k \in 1..Len(th) : th[k] = 0

\* While exploring, the entropy trace records the entropy of the policy at
\* construction and after each update; with two arms it is 0 exactly when
\* an arm is at zero
EntropyRecordsZeroArm ==
    (status = "running" /\ cfg.num_arms = 2 /\ ~stop_exploration)
    => /\ Len(trace.entropy) = state + 1
       /\ trace.entropy[state + 1] = entropy(theta)
       /\ (trace.entropy[state + 1] = 0 <=> HasZeroArm(theta))

\* The arms of the requests that wait for their answer
PendingArms == {Head(inbox[c]).arms[1] + 1 : c \in {d \in Clients : inbox[d] # <<>>}}

\* C18: at every policy update each arm of the round's feedback that sample()
\* produced for the round has a probability above zero in the policy the
\* update divides by: the arms handed out and not yet answered have a
\* probability above zero in the policy as it stands (it is not changed
\* between the sampling and the update), and so have the arms of the
\* feedback an update consumes.
C18_SampledArmsPositive ==
    /\ [](\A k \in PendingArms : theta[k] > 0)
    /\ [][AggTriggered =>
            \A j \in 1..Len(mab_feedbacks') :
                theta[ArmOf(mab_feedbacks'[j])] > 0]_vars

\* Two updates completed while exploring, the second on a round that was
\* sampled from a policy with an arm at zero (EntropyRecordsZeroArm)
C18_Witness ==
    /\ status = "running"
    /\ cfg.num_arms = 2
    /\ state = 2
    /\ Len(agg_rounds) = 2
    /\ Len(mab_feedbacks) >= 1
    /\ Len(trace.entropy) = 3
    /\ trace.entropy[2] = 0
    /\ ~stop_exploration

\* In the protocol: the arms of the feedback an update consumes are arms that
\* sample() returns on the policy the update starts from
C18_InProtocol ==
    [][AggTriggered =>
          \A j \in 1..Len(mab_feedbacks') :
              mab_feedbacks'[j][2] \in sample(stop_exploration, theta)]_vars

-----------------------------------------------------------------------------
(* The final evaluation *)

\* The termination signal is broadcast in this step
FinishStep == finish_sent' = finish_sent + 1

\* The results of the final evaluation held by the buffer mb
FinalResults(mb) == Count(mb.eval, cfg.total_round_num)

\* C19: when no early stop occurs the termination signal is broadcast only
\* after the results of the final evaluation have been collected: the step
\* that broadcasts it is taken with the round counter at the budget and is
\* the one that brings the last of the final evaluation's results; and a
\* step at the budget that adds nothing to the final evaluation's results,
\* as the arrival of the results of an earlier periodic evaluation, does not
\* broadcast it.
C19_FinishAfterFinalEvaluation ==
    /\ [][(FinishStep /\ early_stops' = 0) =>
            /\ state = cfg.total_round_num
            /\ FinalResults(msg_buffer) < cfg.client_num
            /\ FinalResults(msg_buffer') = cfg.client_num]_vars
    /\ [][(state = cfg.total_round_num
            /\ FinalResults(msg_buffer') = FinalResults(msg_buffer))
           => ~FinishStep]_vars

\* Results of an earlier evaluation arrived with the round counter at the
\* budget, and the course was finished afterwards, on the final evaluation,
\* without an early stop
C19_Witness ==
    /\ cfg.total_round_num \in late_metrics
    /\ finish_sent = 1
    /\ early_stops = 0
    /\ state = cfg.total_round_num + 1

-----------------------------------------------------------------------------
(* One termination signal *)

\* C20: over any execution the termination signal is broadcast at most once,
\* and the early stopper answers True at most once: after its first True,
\* and after the final evaluation, the round counter is above the budget and
\* no evaluation is collected again, whatever results still arrive.
C20_FinishAtMostOnce ==
    /\ finish_sent <= 1
    /\ early_stops <= 1
    /\ early_stops <= finish_sent

\* The course was ended by an early stop and results of an evaluation have
\* arrived after it
C20_Witness ==
    /\ finish_sent = 1
    /\ early_stops = 1
    /\ state = cfg.total_round_num + 1
    /\ (cfg.total_round_num + 1) \in late_metrics

====
